---- MODULE Spec2Model ----
(***************************************************************************)
(* Google Calendar integration of the lead-management application:         *)
(*   - GoogleCalendarService (src/lib/googleCalendar.ts), the process-wide *)
(*     connector singleton;                                                *)
(*   - CalendarEventModal                                                  *)
(*     (src/components/communication/CalendarEventModal.tsx), the form     *)
(*     that drives it.                                                     *)
(* The program is single-threaded and event driven.  One step of the model *)
(* is one browser event (a click, a script/load callback, a settled        *)
(* provider promise) together with the promise continuations that run to   *)
(* completion in the same turn of the event loop before the next event.    *)
(***************************************************************************)
EXTENDS Integers, Sequences, FiniteSets, TLC

\* ------------------------------------------------------------------ bounds
\* Handler invocations (connect clicks and submits) explored per run.
MaxOps == 2
\* Edits of the attendee / reminder fields explored per run.
MaxEdits == 1

\* --------------------------------------------------------------- constants
\* An absent JavaScript value (undefined).
Undefined == "undefined"
\* The calendar every request is made against.
PrimaryCalendar == "primary"
\* Reminder offsets the form offers as checkboxes.
ReminderOptions == {5, 10, 15, 30, 60}
\* Reminder offsets the bounded runs toggle.
ToggledOffsets == {m \in ReminderOptions : m <= 10}
\* Answers typed into the attendee prompt in the bounded runs.
Emails == {"a@x.com", "b@x.com"}
Answers == Emails \cup {"ann"}
\* Ids the provider assigns to stored events.
ProviderIds == {"g1", "g2"}
\* The client-side id `event-${Date.now()}`.
GeneratedId == "event-now"
\* new Date().toISOString() at the moment getEvents builds its request.
Now == "now"
\* The timeMin / timeMax arguments getEvents is called with in the bounded
\* runs: none, or both bounds.
TimeRanges ==
    { [timeMin |-> Undefined, timeMax |-> Undefined],
      [timeMin |-> "2024-06-01T00:00:00Z", timeMax |-> "2024-07-01T00:00:00Z"] }
\* What the provider answers a list request with: a body without items, or
\* one with its item list (<<>> is an absent field, <<list>> a present one).
ListAnswers ==
    { [result |-> [items |-> <<>>]],
      [result |-> [items |-> << <<"g1", "g2">> >>]] }

\* The asynchronous call chains that can be in flight at once.  In the form:
\* the mount-time connection check and the current button handler.
FormSlots == {"chk", "cur"}
\* Direct callers of the shared singleton elsewhere in the application.
AppSlots == {"app1", "app2"}
Slots == FormSlots \cup AppSlots

VARIABLES
    \* GoogleCalendarService
    isInitialized,      \* private isInitialized flag
    scriptCount,        \* script elements appended to document.head
    session,            \* the provider's live session (isSignedIn.get())
    clientInited,       \* gapi.client.init has succeeded at least once
    requests,           \* provider calendar calls made, in order
    calls,              \* the in-flight connector call of each slot
    lastQuery,          \* the latest isSignedIn() made by the app: <<>> or
                        \* <<[flag, live, got]>>, the state it ran in and
                        \* what it returned
    \* CalendarEventModal
    mounted,            \* the component has been mounted
    event,              \* props.event: <<>> or <<record>>
    lead,               \* props.lead: <<>> or <<record>>
    open,               \* props.open, owned by the parent
    formData,           \* useState formData
    isLoading,          \* useState isLoading
    isGoogleConnected,  \* useState isGoogleConnected
    emitted,            \* onEventCreated / onEventUpdated invocations
    handlerError,       \* an error has propagated out of a form handler
    \* the runtime
    timeZone,           \* the runtime's time zone: its offset from UTC in
                        \* minutes (local time = UTC + timeZone)
    openedIn,           \* <<>> or <<zone>>: the time zone the pre-populate
                        \* effect ran in
    ops,                \* handler invocations so far (bounded by MaxOps)
    edits               \* field edits so far (bounded by MaxEdits)

connVars == <<isInitialized, scriptCount, session,
              clientInited, requests, lastQuery>>
formVars == <<formData, isLoading, isGoogleConnected, open, emitted,
              handlerError>>
propVars == <<mounted, event, lead>>
envVars == <<timeZone, openedIn>>
vars == <<isInitialized, scriptCount, session,
          clientInited, requests, calls, lastQuery, mounted, event, lead,
          open, formData, isLoading, isGoogleConnected, emitted,
          handlerError, timeZone, openedIn, ops, edits>>

\* ------------------------------------------------------- JavaScript values
\* Truthiness of a string-or-undefined value.
Truthy(s) == s # Undefined /\ s # ""

\* Array.prototype.includes
Includes(s, x) == \E i \in 1..Len(s) : s[i] = x

\* Array.prototype.filter(r => r !== x)
RECURSIVE FilterOut(_, _)
FilterOut(s, x) ==
    IF s = <<>> THEN <<>>
    ELSE IF Head(s) = x THEN FilterOut(Tail(s), x)
         ELSE <<Head(s)>> \o FilterOut(Tail(s), x)


\* ------------------------------------------------------------ dates, times
\* Instants (Date values, ISO timestamps of records) are counted in minutes
\* from 2024-06-01T00:00Z; the records' instants are minute-aligned.  A date
\* string is <<>> ("") or <<day>>, the day counted from 2024-06-01; an HH:MM
\* string is <<>> ("") or <<hours, minutes>>; a Date built from text is <<>>
\* (Invalid Date) or <<instant>>.
MinutesPerDay == 24 * 60

\* Time zones the runtime may be in: UTC and UTC-05:00.
UTC == 0
ZoneOffsets == {UTC, 0 - 5 * 60}

\* Intl.DateTimeFormat().resolvedOptions().timeZone
ZoneName(zone) == IF zone = UTC THEN "UTC" ELSE "America/Bogota"

\* The HH:MM text of a minute of the day.
HHMM(minute) == <<minute \div 60, minute % 60>>

\* Date.prototype.toISOString: date and time of day in UTC.
IsoString(t) == [date |-> <<t \div MinutesPerDay>>,
                 time |-> HHMM(t % MinutesPerDay)]

\* toISOString().split('T')[0]
IsoDate(t) == IsoString(t).date

\* toTimeString().slice(0, 5): the time of day in the runtime's zone.
LocalTime(t, zone) == HHMM((t + zone) % MinutesPerDay)

\* new Date(`${date}T${time}`): a date-time text without offset is read as
\* local time; with either part empty the Date is invalid.
ParseLocal(date, time, zone) ==
    IF date = <<>> \/ time = <<>> THEN <<>>
    ELSE <<date[1] * MinutesPerDay + time[1] * 60 + time[2] - zone>>

\* ------------------------------------------------------------- form values
\* useState initial value of formData, also what resetForm() restores.
InitialForm == [title |-> "", date |-> <<>>, startTime |-> <<>>,
                endTime |-> <<>>, attendees |-> <<>>, reminders |-> <<10>>]

\* Existing records the parent may open the form with.  attendees and
\* reminders are optional in a record: <<>> is absent, <<list>> is present.
ExistingEvents ==
    { [id |-> "e1", title |-> "Viewing", attendees |-> << <<"a@x.com">> >>,
       reminders |-> << <<30>> >>, googleEventId |-> "g1",
       startDateTime |-> 9 * 60, endDateTime |-> 10 * 60],
      [id |-> "e2", title |-> "Call", attendees |-> <<>>,
       reminders |-> <<>>, googleEventId |-> Undefined,
       startDateTime |-> 2 * 60, endDateTime |-> 3 * 60] }

Leads == { [id |-> "l1", name |-> "Ann", primaryEmail |-> "a@x.com"] }

\* `Follow-up with ${lead.name}`
FollowUpTitle(ld) == "Follow-up with " \o ld.name

\* x || fallback for an optional list
OrElse(opt, fallback) == IF opt = <<>> THEN fallback ELSE opt[1]

\* The pre-populate effect run on mount, in a runtime of time zone `zone`.
Prepopulate(ev, ld, prev, zone) ==
    IF ev # <<>> THEN
        [title |-> ev[1].title,
         date |-> IsoDate(ev[1].startDateTime),
         startTime |-> LocalTime(ev[1].startDateTime, zone),
         endTime |-> LocalTime(ev[1].endDateTime, zone),
         attendees |-> OrElse(ev[1].attendees, <<>>),
         reminders |-> OrElse(ev[1].reminders, <<10>>)]
    ELSE IF ld # <<>> THEN
        [prev EXCEPT !.title = FollowUpTitle(ld[1]),
                     !.attendees = <<ld[1].primaryEmail>>]
    ELSE prev

\* formData.attendees.map(email => ({ email }))
BuildAttendees(attendees) ==
    [i \in 1..Len(attendees) |-> [email |-> attendees[i]]]

\* Mutant of BuildOverrides: the overrides notify by email.
BuildOverridesByEmail(reminders) ==
    [i \in 1..Len(reminders) |-> [method |-> "email", minutes |-> reminders[i]]]

\* formData.reminders.map(minutes => ({ method: 'popup', minutes }))
BuildOverrides(reminders) ==
    [i \in 1..Len(reminders) |-> [method |-> "popup", minutes |-> reminders[i]]]

\* startDateTime / endDateTime of handleSubmit.
StartOf(fd, zone) == ParseLocal(fd.date, fd.startTime, zone)
EndOf(fd, zone) == ParseLocal(fd.date, fd.endTime, zone)

\* eventData of handleSubmit; toISOString() throws on an invalid Date, so
\* this is built from valid ones only.
BuildEventData(fd, zone) ==
    [summary |-> fd.title,
     start |-> [dateTime |-> IsoString(StartOf(fd, zone)[1]),
                timeZone |-> ZoneName(zone)],
     end |-> [dateTime |-> IsoString(EndOf(fd, zone)[1]),
              timeZone |-> ZoneName(zone)],
     attendees |-> BuildAttendees(fd.attendees),
     reminders |-> [useDefault |-> FALSE,
                    overrides |-> BuildOverrides(fd.reminders)]]

\* event?.googleEventId : the branch of handleSubmit that calls updateEvent.
UseUpdate(ev) == ev # <<>> /\ Truthy(ev[1].googleEventId)

\* if (event) onEventUpdated else onEventCreated
CallbackFor(ev) == IF ev # <<>> THEN "onEventUpdated" ELSE "onEventCreated"

\* What the promise of a gapi.client request resolves with: the parsed body
\* sits under `result` (getEvents reads response.result.items).
ProviderResponse(gid) == [result |-> [id |-> gid]]

\* result.id : a property read that yields undefined when there is none.
ResultId(resp) == IF "id" \in DOMAIN resp THEN resp.id ELSE Undefined

\* newEvent of handleSubmit, from the form data captured when the handler
\* started and the two Dates it built from them, the callback it is handed
\* to, the connector method that was called and what that method resolved
\* with.
Emission(c) ==
    LET fd == c.captured[1]
        rec == [id |-> IF event # <<>> /\ Truthy(event[1].id)
                       THEN event[1].id ELSE GeneratedId,
                title |-> fd.title,
                startDateTime |-> c.captured[2],
                endDateTime |-> c.captured[3],
                attendees |-> fd.attendees,
                reminders |-> fd.reminders,
                leadId |-> IF lead # <<>> THEN lead[1].id ELSE Undefined,
                googleEventId |-> ResultId(c.response[1])]
    IN [cb |-> CallbackFor(event), via |-> c.op, returned |-> c.response[1],
        record |-> rec]

\* --------------------------------------------------------------- connector
\* Mutant of AlreadyInitialized: the early return is missing.
AlreadyInitializedNever == FALSE

\* if (this.isInitialized) return;
AlreadyInitialized == isInitialized

\* Mutant of IsSignedIn: the isInitialized guard is missing.
IsSignedInUnguarded(flag, sess) == [value |-> sess, touched |-> TRUE]

\* isSignedIn(): the value returned, and whether the auth instance was read.
IsSignedIn(flag, sess) ==
    IF ~flag THEN [value |-> FALSE, touched |-> FALSE]
    ELSE [value |-> sess, touched |-> TRUE]

IdleCall ==
    [op |-> "none", handler |-> "none", phase |-> "idle", status |-> "none",
     value |-> FALSE, response |-> <<>>, failure |-> "none",
     payload |-> <<>>, eventId |-> Undefined, captured |-> <<>>,
     steps |-> <<>>, skipped |-> FALSE, issued |-> FALSE,
     answer |-> <<>>, afterFailure |-> FALSE]

NewCall(op, handler, payload, eventId, captured) ==
    [IdleCall EXCEPT !.op = op, !.handler = handler, !.phase = "entry",
                     !.status = "pending", !.payload = payload,
                     !.eventId = eventId, !.captured = captured]

\* The call once its initializeGoogleAPI promise has resolved: what the
\* awaiting method does next.
AfterInit(c) ==
    LET d == [c EXCEPT !.steps = Append(@, "init")]
    IN CASE c.op = "initializeGoogleAPI" ->
              [d EXCEPT !.phase = "settled", !.status = "resolved"]
         [] c.op = "signIn" -> [d EXCEPT !.phase = "signin"]
         [] OTHER -> [d EXCEPT !.phase = "clientload"]

\* The call once a promise it awaits has rejected: signIn catches and
\* returns false, every other method rejects to its caller.
Rejected(c, why) ==
    IF c.op = "signIn"
    THEN [c EXCEPT !.phase = "settled", !.status = "resolved",
                   !.value = FALSE, !.failure = why]
    ELSE [c EXCEPT !.phase = "settled", !.status = "rejected",
                   !.failure = why]

\* The callback a load was waiting for never runs: the promise stays pending.
Stuck(c, why) == [c EXCEPT !.phase = "stuck", !.failure = why]

\* An initialization has been rejected before: some slot holds a call that
\* was rejected by its script load or its auth init.
InitHasFailed ==
    \E t \in Slots : /\ calls[t].status = "rejected"
                     /\ calls[t].failure \in {"script", "auth2init"}

\* Mutant of Enter: once a script element has been appended, later calls
\* wait for the auth2 load of that one instead of loading the script again.
EnterReusingScript(c) ==
    IF AlreadyInitialized
    THEN AfterInit([c EXCEPT !.skipped = TRUE])
    ELSE IF scriptCount > 0 THEN [c EXCEPT !.phase = "auth2load"]
    ELSE [c EXCEPT !.phase = "script"]

\* A connector method is entered: it first awaits initializeGoogleAPI().
\* afterFailure records whether an initialization had been rejected by then.
Enter(c) ==
    IF AlreadyInitialized
    THEN AfterInit([c EXCEPT !.skipped = TRUE, !.afterFailure = InitHasFailed])
    ELSE [c EXCEPT !.phase = "script", !.afterFailure = InitHasFailed]

\* Mutant of AfterClientLoad: createEvent inserts without client.init.
AfterClientLoadNoInit(c) ==
    [c EXCEPT !.steps = Append(@, "clientload"), !.phase = "request",
              !.issued = TRUE]

\* gapi.load('client', ...) has called back.  createEvent runs client.init;
\* updateEvent and getEvents make their calendar call at once.
AfterClientLoad(c) ==
    LET d == [c EXCEPT !.steps = Append(@, "clientload")]
    IN IF c.op = "createEvent" THEN [d EXCEPT !.phase = "clientinit"]
       ELSE [d EXCEPT !.phase = "request", !.issued = TRUE]

\* Mutant of TimeMinOrNow: the given lower bound is ignored.
TimeMinAlwaysNow(timeMin) == Now

\* timeMin || new Date().toISOString()
TimeMinOrNow(timeMin) == IF Truthy(timeMin) THEN timeMin ELSE Now

\* The calendar call a method makes (events.insert / events.update /
\* events.list), with what had happened when it was made: the steps of the
\* calling method, the connector's flag, whether client.init had succeeded,
\* and the form data the resource was built from (none for a direct call) or
\* the arguments getEvents was given.
RequestOf(c, clientReady) ==
    IF c.op = "getEvents"
    THEN [kind |-> "list",
          calendarId |-> PrimaryCalendar,
          timeMin |-> TimeMinOrNow(c.payload[1].timeMin),
          timeMax |-> c.payload[1].timeMax,
          showDeleted |-> FALSE,
          singleEvents |-> TRUE,
          orderBy |-> "startTime",
          given |-> c.payload[1],
          form |-> <<>>,
          steps |-> c.steps,
          ready |-> isInitialized,
          clientReady |-> clientReady]
    ELSE [kind |-> IF c.op = "createEvent" THEN "insert" ELSE "update",
          calendarId |-> PrimaryCalendar,
          eventId |-> c.eventId,
          resource |-> c.payload[1],
          form |-> c.captured,
          steps |-> c.steps,
          ready |-> isInitialized,
          clientReady |-> clientReady]

\* response.result.items || []
ItemsOf(response) == OrElse(response.result.items, <<>>)

\* ------------------------------------------------- handlers' continuations
\* checkGoogleConnection after its await: setIsGoogleConnected(isSignedIn()),
\* or the catch that only logs.
CheckSettled(now, c, flag, sess) ==
    IF c.status = "resolved"
    THEN [now EXCEPT !.conn = IsSignedIn(flag, sess).value]
    ELSE now

\* handleGoogleConnect after its await: setIsGoogleConnected(success); the
\* catch logs; finally setIsLoading(false).
ConnectSettled(now, c) ==
    IF c.status = "resolved"
    THEN [now EXCEPT !.conn = c.value, !.loading = FALSE]
    ELSE [now EXCEPT !.loading = FALSE]

\* handleSubmit after the provider call resolved: the callback, then
\* onOpenChange(false), resetForm(), and finally setIsLoading(false).
SubmitSucceeded(now, c) ==
    [now EXCEPT !.emitted = Append(@, Emission(c)),
                !.open = FALSE,
                !.data = InitialForm,
                !.loading = FALSE]

\* Mutant of SubmitFailed: the failure path closes the dialog as well.
SubmitFailedCloses(now, c) == [now EXCEPT !.loading = FALSE, !.open = FALSE]

\* handleSubmit after the provider call rejected: the catch logs; finally
\* setIsLoading(false).
SubmitFailed(now, c) == [now EXCEPT !.loading = FALSE]

\* The form state after the connector call of handler c.handler has settled
\* as c, with the connector's flag and the provider session as given.
FormAfter(c, flag, sess) ==
    LET now == [conn |-> isGoogleConnected, loading |-> isLoading,
                open |-> open, data |-> formData, emitted |-> emitted,
                error |-> handlerError]
    IN CASE c.handler = "check" -> CheckSettled(now, c, flag, sess)
         [] c.handler \in {"connect", "submitConnect"} -> ConnectSettled(now, c)
         [] c.handler = "submit" ->
              IF c.status = "resolved" THEN SubmitSucceeded(now, c)
              ELSE SubmitFailed(now, c)
         [] OTHER -> now

\* Slot s moves to c; when that settles the call, the awaiting handler's
\* continuation runs in the same turn.
Advance(s, c, flag, sess) ==
    /\ calls' = [calls EXCEPT ![s] = c]
    /\ IF c.phase = "settled"
       THEN LET f == FormAfter(c, flag, sess)
            IN /\ isGoogleConnected' = f.conn
               /\ isLoading' = f.loading
               /\ open' = f.open
               /\ formData' = f.data
               /\ emitted' = f.emitted
               /\ handlerError' = f.error
       ELSE UNCHANGED formVars

\* ------------------------------------------------------------------- state
Started(zones) ==
    /\ isInitialized = FALSE
    /\ scriptCount = 0
    /\ session \in BOOLEAN      \* a session kept by the provider from before
    /\ clientInited = FALSE
    /\ requests = <<>>
    /\ calls = [s \in Slots |-> IdleCall]
    /\ lastQuery = <<>>
    /\ mounted = FALSE
    /\ event = <<>>
    /\ lead = <<>>
    /\ open = FALSE
    /\ formData = InitialForm
    /\ isLoading = FALSE
    /\ isGoogleConnected = FALSE
    /\ emitted = <<>>
    /\ handlerError = FALSE
    /\ timeZone \in zones
    /\ openedIn = <<>>
    /\ ops = 0
    /\ edits = 0

\* The state after construction, in a runtime set to UTC.
Init == Started({UTC})

\* The state after construction, in a runtime of any of the time zones.
InitZones == Started(ZoneOffsets)

\* A slot takes a new call when it holds none that is still pending.
Free(s) == calls[s].status # "pending"

\* Mutant of EnterConnector: a call made while another initialization is in
\* flight shares that one's script element.
EnterConnectorShared ==
    /\ scriptCount' =
          IF AlreadyInitialized
             \/ \E t \in Slots : calls[t].phase \in {"script", "auth2load", "auth2init"}
          THEN scriptCount ELSE scriptCount + 1
    /\ UNCHANGED <<isInitialized, session, clientInited, requests, lastQuery>>

\* The connector bookkeeping of entering a method: initializeGoogleAPI
\* appends a script element unless it returns at once.
EnterConnector ==
    /\ scriptCount' = IF AlreadyInitialized THEN scriptCount ELSE scriptCount + 1
    /\ UNCHANGED <<isInitialized, session, clientInited, requests, lastQuery>>

\* ------------------------------------------------------------ form actions
\* The parent renders the modal: the effects pre-populate the fields and run
\* checkGoogleConnection().
Mount(ev, ld) ==
    /\ ~mounted
    /\ mounted' = TRUE
    /\ event' = ev
    /\ lead' = ld
    /\ EnterConnector
    /\ LET c == Enter(NewCall("initializeGoogleAPI", "check", <<>>, Undefined, <<>>))
           f == FormAfter(c, isInitialized, session)
       IN /\ calls' = [calls EXCEPT !["chk"] = c]
          /\ isGoogleConnected' = IF c.phase = "settled" THEN f.conn
                                  ELSE isGoogleConnected
    /\ formData' = Prepopulate(ev, ld, formData, timeZone)
    /\ openedIn' = <<timeZone>>
    /\ timeZone' = timeZone
    /\ open' = TRUE
    /\ UNCHANGED <<isLoading, emitted, handlerError, ops, edits>>

\* handleGoogleConnect, entered from handler h.
GoogleConnect(h) ==
    /\ isLoading' = TRUE
    /\ EnterConnector
    /\ calls' = [calls EXCEPT !["cur"] =
                    Enter(NewCall("signIn", h, <<>>, Undefined, <<>>))]
    /\ UNCHANGED <<formData, isGoogleConnected, open, emitted, handlerError>>

\* Click on "Connect Google Calendar" (shown while not connected, disabled
\* while loading).
ConnectClick ==
    /\ mounted /\ open /\ ~isGoogleConnected /\ ~isLoading
    /\ ops < MaxOps
    /\ ops' = ops + 1
    /\ GoogleConnect("connect")
    /\ UNCHANGED <<propVars, envVars, edits>>

\* The branch of handleSubmit taken when isGoogleConnected is true.  With an
\* invalid start or end Date toISOString() throws inside the try: the catch
\* logs, finally sets isLoading back, and no connector method is called.
SubmitConnected ==
    LET start == StartOf(formData, timeZone)
        end == EndOf(formData, timeZone)
    IN IF start = <<>> \/ end = <<>>
       THEN UNCHANGED <<connVars, calls, formVars>>
       ELSE /\ isLoading' = TRUE
            /\ EnterConnector
            /\ LET data == BuildEventData(formData, timeZone)
                   kept == <<formData, start[1], end[1]>>
                   c == IF UseUpdate(event)
                        THEN NewCall("updateEvent", "submit", <<data>>,
                                     event[1].googleEventId, kept)
                        ELSE NewCall("createEvent", "submit", <<data>>,
                                     Undefined, kept)
               IN calls' = [calls EXCEPT !["cur"] = Enter(c)]
            /\ UNCHANGED <<formData, isGoogleConnected, open, emitted,
                           handlerError>>

\* Mutant of HandleSubmit: the isGoogleConnected test is missing.
HandleSubmitUnguarded ==
    /\ mounted /\ open /\ ~isLoading
    /\ ops < MaxOps
    /\ ops' = ops + 1
    /\ SubmitConnected
    /\ UNCHANGED <<propVars, envVars, edits>>

\* handleSubmit.
HandleSubmit ==
    /\ mounted /\ open /\ ~isLoading
    /\ ops < MaxOps
    /\ ops' = ops + 1
    /\ IF ~isGoogleConnected
       THEN GoogleConnect("submitConnect")
       ELSE SubmitConnected
    /\ UNCHANGED <<propVars, envVars, edits>>

\* Cancel / onOpenChange(false).
Cancel ==
    /\ mounted /\ open
    /\ open' = FALSE
    /\ UNCHANGED <<connVars, calls, propVars, envVars, formData, isLoading,
                   isGoogleConnected, emitted, handlerError, ops, edits>>

Edit(fd) ==
    /\ mounted /\ open
    /\ edits < MaxEdits
    /\ edits' = edits + 1
    /\ formData' = fd
    /\ UNCHANGED <<connVars, calls, propVars, envVars, isLoading, isGoogleConnected,
                   open, emitted, handlerError, ops>>

\* What the bounded runs type into the empty date and time fields; they fill
\* the fields in the order of the form (the three edits commute).
TypedDate == <<0>>
TypedStart == HHMM(9 * 60)
TypedEnd == HHMM(10 * 60)

\* onChange of the date field.
SetDate(d) ==
    /\ mounted /\ open
    /\ formData.date = <<>>
    /\ formData' = [formData EXCEPT !.date = d]
    /\ UNCHANGED <<connVars, calls, propVars, envVars, isLoading,
                   isGoogleConnected, open, emitted, handlerError, ops, edits>>

\* onChange of the start time field.
SetStartTime(t) ==
    /\ mounted /\ open
    /\ formData.date # <<>> /\ formData.startTime = <<>>
    /\ formData' = [formData EXCEPT !.startTime = t]
    /\ UNCHANGED <<connVars, calls, propVars, envVars, isLoading,
                   isGoogleConnected, open, emitted, handlerError, ops, edits>>

\* onChange of the end time field.
SetEndTime(t) ==
    /\ mounted /\ open
    /\ formData.startTime # <<>> /\ formData.endTime = <<>>
    /\ formData' = [formData EXCEPT !.endTime = t]
    /\ UNCHANGED <<connVars, calls, propVars, envVars, isLoading,
                   isGoogleConnected, open, emitted, handlerError, ops, edits>>

\* email.includes('@')
IncludesAt(email) == email \in Emails

\* addAttendee: the prompt's answer is kept when it contains "@".
AddAttendee(email) ==
    /\ IncludesAt(email)
    /\ Edit([formData EXCEPT !.attendees = Append(@, email)])

\* removeAttendee
RemoveAttendee(email) ==
    /\ Includes(formData.attendees, email)
    /\ Edit([formData EXCEPT !.attendees = FilterOut(@, email)])

\* Mutant of Toggled: the offset is appended whether it is there or not.
ToggledAlwaysAdds(reminders, minutes) == Append(reminders, minutes)

\* The reminder list toggleReminder(minutes) computes from prev.reminders.
Toggled(reminders, minutes) ==
    IF Includes(reminders, minutes) THEN FilterOut(reminders, minutes)
    ELSE Append(reminders, minutes)

\* toggleReminder
ToggleReminder(minutes) ==
    Edit([formData EXCEPT !.reminders = Toggled(@, minutes)])

\* --------------------------------------------------- other callers' actions
\* The event resource the other callers pass to createEvent / updateEvent.
AppResource ==
    BuildEventData([InitialForm EXCEPT !.title = "Visit", !.date = TypedDate,
                                       !.startTime = TypedStart,
                                       !.endTime = TypedEnd], UTC)

\* The operating system's time zone changes while the page is open.
ZoneChange(zone) ==
    /\ zone # timeZone
    /\ timeZone' = zone
    /\ UNCHANGED <<connVars, calls, propVars, formVars, openedIn, ops, edits>>

\* Another part of the application calls a method of the singleton.
AppCall(s, op) ==
    /\ Free(s)
    /\ ops < MaxOps
    /\ ops' = ops + 1
    /\ EnterConnector
    /\ LET data == <<AppResource>>
           c == CASE op = "createEvent" ->
                       NewCall(op, "app", data, Undefined, <<>>)
                  [] op = "updateEvent" ->
                       NewCall(op, "app", data, "g1", <<>>)
                  [] OTHER -> NewCall(op, "app", <<>>, Undefined, <<>>)
       IN calls' = [calls EXCEPT ![s] = Enter(c)]
    /\ UNCHANGED <<propVars, envVars, formVars, edits>>

\* Another part of the application calls getEvents(timeMin, timeMax).
AppGetEvents(s, range) ==
    /\ Free(s)
    /\ ops < MaxOps
    /\ ops' = ops + 1
    /\ EnterConnector
    /\ calls' = [calls EXCEPT ![s] =
                    Enter(NewCall("getEvents", "app", <<range>>, Undefined, <<>>))]
    /\ UNCHANGED <<propVars, envVars, formVars, edits>>

\* isSignedIn() is queried.
QueryIsSignedIn ==
    /\ lastQuery' = <<[flag |-> isInitialized, live |-> session,
                       got |-> IsSignedIn(isInitialized, session)]>>
    /\ UNCHANGED <<isInitialized, scriptCount, session,
                   clientInited, requests, calls, propVars, envVars, formVars, ops, edits>>

\* signOut(): ends the provider session.
SignOut ==
    /\ isInitialized
    /\ session
    /\ session' = FALSE
    /\ UNCHANGED <<isInitialized, scriptCount, clientInited,
                   requests, lastQuery, calls, propVars, envVars, formVars, ops, edits>>

\* -------------------------------------------------- browser / provider events
Quiet == UNCHANGED <<connVars, propVars, envVars, ops, edits>>

\* script.onload: gapi.load('auth2', callback) is called.
ScriptLoads(s) ==
    /\ calls[s].phase = "script"
    /\ Advance(s, [calls[s] EXCEPT !.phase = "auth2load"], isInitialized, session)
    /\ Quiet

\* script.onerror = reject
ScriptFails(s) ==
    /\ calls[s].phase = "script"
    /\ Advance(s, Rejected(calls[s], "script"), isInitialized, session)
    /\ Quiet

\* The auth2 module has loaded: the callback calls gapi.auth2.init.
Auth2Loads(s) ==
    /\ calls[s].phase = "auth2load"
    /\ Advance(s, [calls[s] EXCEPT !.phase = "auth2init"], isInitialized, session)
    /\ Quiet

\* The auth2 module fails to load: the function passed to gapi.load is the
\* success callback, and nothing else is registered.
Auth2LoadFails(s) ==
    /\ calls[s].phase = "auth2load"
    /\ Advance(s, Stuck(calls[s], "auth2load"), isInitialized, session)
    /\ Quiet

\* gapi.auth2.init(...).then: the flag is set and the promise resolved.
Auth2InitOk(s) ==
    /\ calls[s].phase = "auth2init"
    /\ isInitialized' = TRUE
    /\ UNCHANGED <<scriptCount, session, clientInited, requests,
                   lastQuery, propVars, envVars, ops, edits>>
    /\ Advance(s, AfterInit(calls[s]), TRUE, session)

\* gapi.auth2.init(...).catch(reject)
Auth2InitRejects(s) ==
    /\ calls[s].phase = "auth2init"
    /\ Advance(s, Rejected(calls[s], "auth2init"), isInitialized, session)
    /\ Quiet

\* authInstance.signIn resolves: the user consented; user.isSignedIn().
SignInGranted(s) ==
    /\ calls[s].phase = "signin"
    /\ session' = TRUE
    /\ UNCHANGED <<isInitialized, scriptCount, clientInited,
                   requests, lastQuery, propVars, envVars, ops, edits>>
    /\ Advance(s, [calls[s] EXCEPT !.phase = "settled", !.status = "resolved",
                                   !.value = TRUE],
               isInitialized, TRUE)

\* authInstance.signIn rejects: denied, popup closed or blocked.
SignInDenied(s) ==
    /\ calls[s].phase = "signin"
    /\ Advance(s, Rejected(calls[s], "signin"), isInitialized, session)
    /\ Quiet

\* gapi.load('client', callback) calls back.
ClientLoads(s) ==
    /\ calls[s].phase = "clientload"
    /\ LET c == AfterClientLoad(calls[s])
       IN IF c.phase = "request"
          THEN \* updateEvent / getEvents: events.update / events.list is
               \* called.  When client.init has never run,
               \* gapi.client.calendar may not be there, and the call then
               \* throws inside the callback.
               /\ requests' = Append(requests, RequestOf(c, clientInited))
               /\ \E thrown \in (IF clientInited THEN {FALSE} ELSE {TRUE, FALSE}) :
                     Advance(s, IF thrown THEN Stuck(c, "throw") ELSE c,
                             isInitialized, session)
               /\ UNCHANGED <<isInitialized, scriptCount, session,
                              clientInited, lastQuery, propVars, envVars, ops, edits>>
          ELSE /\ Advance(s, c, isInitialized, session)
               /\ Quiet

\* The client module fails to load: no callback runs.
ClientLoadFails(s) ==
    /\ calls[s].phase = "clientload"
    /\ Advance(s, Stuck(calls[s], "clientload"), isInitialized, session)
    /\ Quiet

\* gapi.client.init(...).then: events.insert is called.
ClientInitOk(s) ==
    /\ calls[s].phase = "clientinit"
    /\ clientInited' = TRUE
    /\ LET c == [calls[s] EXCEPT !.phase = "request", !.issued = TRUE,
                                 !.steps = Append(@, "clientinit")]
       IN /\ requests' = Append(requests, RequestOf(c, TRUE))
          /\ Advance(s, c, isInitialized, session)
    /\ UNCHANGED <<isInitialized, scriptCount, session, lastQuery,
                   propVars, envVars, ops, edits>>

\* gapi.client.init rejects.
ClientInitRejects(s) ==
    /\ calls[s].phase = "clientinit"
    /\ Advance(s, Rejected(calls[s], "clientinit"), isInitialized, session)
    /\ Quiet

\* The provider answers the list request: getEvents resolves with the items.
ListResolves(s, response) ==
    /\ calls[s].phase = "request"
    /\ calls[s].op = "getEvents"
    /\ Advance(s, [calls[s] EXCEPT !.phase = "settled", !.status = "resolved",
                                   !.answer = <<response>>,
                                   !.response = <<ItemsOf(response)>>],
               isInitialized, session)
    /\ Quiet

\* The provider answers the insert / update.
RequestResolves(s, gid) ==
    /\ calls[s].phase = "request"
    /\ calls[s].op # "getEvents"
    /\ Advance(s, [calls[s] EXCEPT !.phase = "settled", !.status = "resolved",
                                   !.response = <<ProviderResponse(gid)>>],
               isInitialized, session)
    /\ Quiet

\* The provider rejects the insert / update / list.
RequestRejects(s) ==
    /\ calls[s].phase = "request"
    /\ Advance(s, Rejected(calls[s], "request"), isInitialized, session)
    /\ Quiet

\* The props the parent mounts the modal with: a new event (with or without
\* a lead) or an existing record.
Props ==
    {<<ev, ld>> : ev \in {<<>>}, ld \in {<<>>} \cup {<<l>> : l \in Leads}}
    \cup {<<ev, ld>> : ev \in {<<e>> : e \in ExistingEvents}, ld \in {<<>>}}
\* The methods other parts of the application call directly.
AppOps == {"initializeGoogleAPI", "signIn", "createEvent", "updateEvent"}

\* The browser and provider events of the call in slot s.
Event(s) ==
    \/ ScriptLoads(s)
    \/ ScriptFails(s)
    \/ Auth2Loads(s)
    \/ Auth2LoadFails(s)
    \/ Auth2InitOk(s)
    \/ Auth2InitRejects(s)
    \/ SignInGranted(s)
    \/ SignInDenied(s)
    \/ ClientLoads(s)
    \/ ClientLoadFails(s)
    \/ ClientInitOk(s)
    \/ ClientInitRejects(s)
    \/ \E gid \in ProviderIds : RequestResolves(s, gid)
    \/ RequestRejects(s)

\* The modal and the connector under it.
Next ==
    \/ \E p \in Props : Mount(p[1], p[2])
    \/ ConnectClick
    \/ HandleSubmit
    \/ Cancel
    \/ SetDate(TypedDate)
    \/ SetStartTime(TypedStart)
    \/ SetEndTime(TypedEnd)
    \/ \E e \in Answers : AddAttendee(e)
    \/ \E e \in Emails : RemoveAttendee(e)
    \/ \E m \in ToggledOffsets : ToggleReminder(m)
    \/ \E s \in FormSlots : Event(s)

Spec == Init /\ [][Next]_vars

\* The modal opened and submitted without edits, in a runtime whose time
\* zone may be any of ZoneOffsets and may change while the form is open.
NextZones ==
    \/ \E p \in Props : Mount(p[1], p[2])
    \/ \E z \in ZoneOffsets : ZoneChange(z)
    \/ ConnectClick
    \/ HandleSubmit
    \/ Cancel
    \/ \E s \in FormSlots : Event(s)

SpecZones == InitZones /\ [][NextZones]_vars

\* The connector called directly, by up to two concurrent callers.
NextApi ==
    \/ \E s \in AppSlots, op \in AppOps : AppCall(s, op)
    \/ \E s \in AppSlots, range \in TimeRanges : AppGetEvents(s, range)
    \/ \E s \in AppSlots, a \in ListAnswers : ListResolves(s, a)
    \/ QueryIsSignedIn
    \/ SignOut
    \/ \E s \in AppSlots : Event(s)

SpecApi == Init /\ [][NextApi]_vars

\* ================================================================== claims
\* The phases in which a call's own initializeGoogleAPI is still at work.
InitPhases == {"script", "auth2load", "auth2init"}
\* The ways the initialization of a call can fail.
InitFailures == {"script", "auth2load", "auth2init"}

\* A connector method is entered in this step by the call of slot s.
Entered(s) == calls'[s] # calls[s] /\ calls[s].status # "pending"

\* C1: initializeGoogleAPI is idempotent once Ready.  A method entered while
\* isInitialized is true has its initializeGoogleAPI return at once: no script
\* element is appended, the call starts no script / auth2 load / auth2 init
\* phase, the flag stays true, and a direct initializeGoogleAPI call is
\* resolved in the same step.
C1_IdempotentWhenReady ==
    [][\A s \in Slots :
          (isInitialized /\ Entered(s)) =>
              /\ scriptCount' = scriptCount
              /\ isInitialized'
              /\ calls'[s].skipped
              /\ calls'[s].phase \notin InitPhases
              /\ (calls'[s].op = "initializeGoogleAPI"
                    => calls'[s].status = "resolved")]_vars

\* C1 witness: a direct initializeGoogleAPI call made when Ready has returned
\* at once, after an earlier call had loaded the script.
C1_Witness ==
    \E s \in Slots :
        /\ calls[s].op = "initializeGoogleAPI"
        /\ calls[s].skipped
        /\ calls[s].status = "resolved"
        /\ scriptCount = 1
        /\ isInitialized

\* C2 (as claimed): a call of initializeGoogleAPI whose script load, auth2
\* module load or auth2 init has failed is rejected; it is not left pending.
C2_InitFailureRejects ==
    \A s \in Slots :
        (calls[s].op = "initializeGoogleAPI" /\ calls[s].failure \in InitFailures)
            => calls[s].status = "rejected"

\* C3: isSignedIn() returns false, without reading the auth instance, whenever
\* it runs with isInitialized false, whatever the provider's live session is;
\* with the flag true it returns the live session state.
C3_IsSignedInGuarded ==
    lastQuery # <<>> =>
        LET q == lastQuery[1]
        IN /\ (~q.flag => q.got = [value |-> FALSE, touched |-> FALSE])
           /\ (q.flag => q.got.value = q.live)

\* C3 witness: isSignedIn() was asked while the flag was false and the
\* provider held a live session, and answered false.
C3_Witness ==
    /\ lastQuery # <<>>
    /\ ~lastQuery[1].flag
    /\ lastQuery[1].live
    /\ lastQuery[1].got.value = FALSE


\* The call of slot s meets a failure on its path in this step.
Fails(s) == calls[s].failure = "none" /\ calls'[s].failure # "none"

\* The call of slot s settles in this step.
Settles(s) == calls[s].status = "pending" /\ calls'[s].status # "pending"

\* C4 (as claimed): signIn never rejects.  On every failure on its path
\* (initialization, provider rejection, denial, popup blocked) it resolves to
\* false and leaves the provider session as it was, and handleGoogleConnect
\* then sets isGoogleConnected and isLoading to false; it resolves to true
\* only when the session is authenticated.
C4_SignInSwallowsFailures ==
    [][\A s \in Slots :
          calls[s].op = "signIn" =>
              /\ calls'[s].status # "rejected"
              /\ Fails(s) =>
                    /\ calls'[s].status = "resolved"
                    /\ calls'[s].value = FALSE
                    /\ session' = session
                    /\ (s = "cur" => ~isGoogleConnected' /\ ~isLoading')
              /\ (Settles(s) /\ calls'[s].value) => session']_vars


\* C5: createEvent calls events.insert, on calendar 'primary', only after its
\* initializeGoogleAPI has resolved, the client module has loaded and
\* client.init has succeeded, in that order.  When initialization, client.init
\* or the insert is rejected, createEvent rejects, and in the first two cases
\* it has made no insert.  When it resolves, it resolves with the provider's
\* response, which carries the id the provider assigned.
C5_CreateEventOrder ==
    /\ \A i \in 1..Len(requests) :
          requests[i].kind = "insert" =>
              /\ requests[i].calendarId = PrimaryCalendar
              /\ requests[i].steps = <<"init", "clientload", "clientinit">>
              /\ requests[i].ready
              /\ requests[i].clientReady
    /\ \A s \in Slots :
          calls[s].op = "createEvent" =>
              /\ calls[s].failure \in {"script", "auth2init", "clientinit"}
                    => calls[s].status = "rejected" /\ ~calls[s].issued
              /\ calls[s].failure = "request" => calls[s].status = "rejected"
              /\ calls[s].status = "resolved" =>
                    /\ calls[s].issued
                    /\ \E gid \in ProviderIds :
                          calls[s].response = <<ProviderResponse(gid)>>

\* C5 witness: of two createEvent calls started together, one was rejected by
\* its failed initialization without an insert, the other inserted and
\* resolved with the provider's response.
C5_Witness ==
    \E s, t \in Slots :
        /\ calls[s].op = "createEvent" /\ calls[t].op = "createEvent"
        /\ calls[s].status = "rejected"
        /\ calls[s].failure \in {"script", "auth2init"}
        /\ ~calls[s].issued
        /\ calls[t].status = "resolved"
        /\ calls[t].response # <<>>
        /\ Len(requests) = 1

\* C6 (as claimed): updateEvent follows createEvent's path: it calls
\* events.update only after initializeGoogleAPI has resolved and the client
\* module has been loaded and initialized (client.init has succeeded), also
\* when it is the first calendar call made on the connector.
C6_UpdateEventOrder ==
    \A i \in 1..Len(requests) :
        requests[i].kind = "update" =>
            /\ requests[i].ready
            /\ requests[i].clientReady


\* The elements of a list.
Range(seq) == {seq[i] : i \in 1..Len(seq)}

\* What the parent can see of the form's doing, and the form's fields.
Untouched ==
    /\ requests' = requests
    /\ emitted' = emitted
    /\ open' = open
    /\ formData' = formData

\* C7: handleSubmit run while isGoogleConnected is false triggers sign-in and
\* returns.  On that pass, from its start to the settling of the sign-in, no
\* createEvent / updateEvent is called, no callback is invoked and the form is
\* neither closed nor reset, whether the sign-in succeeds or not; createEvent
\* and updateEvent are only entered by a submit that starts with
\* isGoogleConnected true.
C7_DisconnectedSubmitOnlyConnects ==
    [][LET c == calls["cur"]
           d == calls'["cur"]
       IN /\ (Entered("cur") /\ ~isGoogleConnected /\ ops' # ops /\ isLoading') =>
                /\ d.op = "signIn"
                /\ Untouched
          /\ (c.handler = "submitConnect" /\ c.status = "pending" /\ d # c) =>
                /\ d.op = "signIn" /\ ~d.issued
                /\ Untouched
          /\ (Entered("cur") /\ d.op \in {"createEvent", "updateEvent"}) =>
                /\ isGoogleConnected
                /\ d.handler = "submit"]_vars

\* C7 witness: a submit made while not connected has signed in successfully,
\* and nothing was sent, emitted, closed or reset.
C7_Witness ==
    /\ calls["cur"].handler = "submitConnect"
    /\ calls["cur"].status = "resolved"
    /\ calls["cur"].value
    /\ isGoogleConnected
    /\ requests = <<>>
    /\ emitted = <<>>
    /\ open

\* C8 (as claimed): a signed-in submit calls updateEvent exactly when the
\* record being edited carries a provider id and createEvent otherwise; the
\* callback matches the call (onEventUpdated after updateEvent, onEventCreated
\* after createEvent); the emitted record keeps the existing record's id and
\* carries the provider id the call returned.
C8_CallbackMatchesCall ==
    \A i \in 1..Len(emitted) :
        LET e == emitted[i]
        IN /\ (e.via = "updateEvent") <=> UseUpdate(event)
           /\ (e.cb = "onEventUpdated") <=> (e.via = "updateEvent")
           /\ (e.cb = "onEventCreated") <=> (e.via = "createEvent")
           /\ (event # <<>> => e.record.id = event[1].id)
           /\ e.record.googleEventId = e.returned.result.id

C10_PayloadFromForm ==
    \A i \in 1..Len(requests) :
        requests[i].form # <<>> =>
            LET fd == requests[i].form[1]
                ov == requests[i].resource.reminders.overrides
                at == requests[i].resource.attendees
            IN /\ requests[i].resource.reminders.useDefault = FALSE
               /\ \A m \in Range(fd.reminders) :
                     Cardinality({j \in 1..Len(ov) :
                        ov[j] = [method |-> "popup", minutes |-> m]}) = 1
               /\ \A j \in 1..Len(ov) :
                     ov[j].method = "popup" /\ ov[j].minutes \in Range(fd.reminders)
               /\ Len(at) = Len(fd.attendees)
               /\ \A j \in 1..Len(at) : at[j] = [email |-> fd.attendees[j]]

\* C10 witness: a submit with attendees ['a@x.com'] and reminders [10] sent
\* exactly one override {popup, 10}.
C10_Witness ==
    \E i \in 1..Len(requests) :
        /\ requests[i].form # <<>>
        /\ requests[i].form[1].attendees = <<"a@x.com">>
        /\ requests[i].form[1].reminders = <<10>>
        /\ requests[i].resource.reminders.overrides
              = <<[method |-> "popup", minutes |-> 10]>>
        /\ requests[i].resource.attendees = <<[email |-> "a@x.com"]>>


\* C11: toggleReminder is an involution on the set of reminders.  For the
\* reminder list of every reachable form state and every offered offset m, one
\* toggle flips the membership of m and of nothing else, and two toggles give
\* a list with the same set of offsets as before; and every toggle the form
\* makes changes the set by exactly one offset.
C11_ToggleInvolution ==
    [][/\ \A m \in ReminderOptions :
            LET r == formData.reminders
                once == Toggled(r, m)
                twice == Toggled(once, m)
            IN /\ (m \in Range(once)) <=> (m \notin Range(r))
               /\ Range(once) \ {m} = Range(r) \ {m}
               /\ Range(twice) = Range(r)
       /\ (edits' # edits /\ formData'.reminders # formData.reminders) =>
            \E m \in ReminderOptions :
                /\ formData'.reminders = Toggled(formData.reminders, m)
                /\ Range(formData'.reminders) \ {m} = Range(formData.reminders) \ {m}
                /\ (m \in Range(formData'.reminders))
                      <=> (m \notin Range(formData.reminders))]_vars

\* C11 witness: the list pre-populated from an existing record has had an
\* offset toggled on, and toggling its first offset twice would reorder it.
C11_Witness ==
    /\ event # <<>>
    /\ event[1].reminders = << <<30>> >>
    /\ formData.reminders = <<30, 5>>
    /\ Toggled(Toggled(formData.reminders, 30), 30) = <<5, 30>>

\* The start and end an update or insert made by the form carries, against
\* the record the form was opened with: both equal to the record's, or both
\* different from them.
RoundTrips(r) ==
    /\ r.resource.start.dateTime = IsoString(event[1].startDateTime)
    /\ r.resource.end.dateTime = IsoString(event[1].endDateTime)
Shifted(r) ==
    /\ r.resource.start.dateTime # IsoString(event[1].startDateTime)
    /\ r.resource.end.dateTime # IsoString(event[1].endDateTime)

\* C12: round trip of editing.  For an existing record (minute-aligned start
\* and end) opened and submitted with the date and time fields as they were
\* pre-populated, the start and end sent to the provider are the record's own
\* instants when the runtime's time zone at submit is the one the form was
\* opened in, and both differ from the record's when the zone at submit has
\* another offset.
C12_RoundTrip ==
    \A i \in 1..Len(requests) :
        LET r == requests[i]
        IN (r.form # <<>> /\ event # <<>>) =>
              IF r.resource.start.timeZone = ZoneName(openedIn[1])
              THEN RoundTrips(r)
              ELSE Shifted(r)

InitRejects(s) ==
    /\ calls[s].phase \in InitPhases
    /\ calls'[s].failure \in {"script", "auth2init"}

\* C14: a failed initialization leaves the connector as it was when
\* Uninitialized and is not retried automatically.  The step in which an
\* initialization is rejected changes nothing of the connector (a false flag
\* stays false), and the flag changes only to true and only when an auth init
\* succeeds; a script element is appended only in a step that enters a
\* connector method, one per entry; a method entered while the flag is false,
\* also after a rejected initialization, starts again at the script load with
\* no step done; and when the script load, the auth2 load and the auth init of
\* a call succeed the flag is true.
C14_FailedInitNotRetried ==
    [][/\ \A s \in Slots :
            InitRejects(s) =>
                /\ isInitialized' = isInitialized
                /\ scriptCount' = scriptCount
                /\ session' = session
                /\ clientInited' = clientInited
                /\ requests' = requests
                /\ \A t \in Slots \ {s} : calls'[t] = calls[t]
       /\ isInitialized' # isInitialized =>
            /\ isInitialized'
            /\ \E s \in Slots : /\ calls[s].phase = "auth2init"
                                /\ calls'[s].failure = "none"
                                /\ calls'[s] # calls[s]
       /\ scriptCount' # scriptCount =>
            /\ scriptCount' = scriptCount + 1
            /\ \E s \in Slots : Entered(s)
       /\ \A s \in Slots :
            (Entered(s) /\ ~isInitialized) =>
                /\ calls'[s].phase = "script"
                /\ calls'[s].steps = <<>>
                /\ ~calls'[s].skipped
                /\ scriptCount' = scriptCount + 1
       /\ \A s \in Slots :
            (calls[s].phase = "script" /\ calls'[s] # calls[s]
                    /\ calls'[s].failure = "none")
                => calls'[s].phase = "auth2load"
       /\ \A s \in Slots :
            (calls[s].phase = "auth2load" /\ calls'[s] # calls[s]
                    /\ calls'[s].failure = "none")
                => calls'[s].phase = "auth2init"
       /\ \A s \in Slots :
            (calls[s].phase = "auth2init" /\ calls'[s] # calls[s]
                    /\ calls'[s].failure = "none")
                => isInitialized' /\ "init" \in Range(calls'[s].steps)]_vars

\* C14 witness: an initializeGoogleAPI call entered after an initialization
\* had been rejected went through its own script load and made the connector
\* Ready, with a second script element appended.
C14_Witness ==
    \E s \in AppSlots :
        /\ calls[s].op = "initializeGoogleAPI"
        /\ calls[s].afterFailure
        /\ ~calls[s].skipped
        /\ calls[s].status = "resolved"
        /\ isInitialized
        /\ scriptCount = 2

\* Some call in a slot has completed its own initialization.
SomeInitSucceeded(cs) ==
    \E s \in Slots : ~cs[s].skipped /\ "init" \in Range(cs[s].steps)

\* C15: concurrent initializeGoogleAPI calls are not deduplicated and have an
\* idempotent outcome.  A method entered while the flag is false appends its
\* own script element and starts its own load, also while another call's
\* initialization is in flight; the flag never goes from true to false; a step
\* changes the call of one slot only, and a call leaves its initialization
\* resolved exactly by its own auth init succeeding and otherwise by its own
\* script error or auth init rejection; and the flag is true whenever some
\* call's initialization has succeeded.
C15_ConcurrentInit ==
    [][/\ \A s \in Slots :
            (Entered(s) /\ ~isInitialized) =>
                /\ scriptCount' = scriptCount + 1
                /\ calls'[s].phase = "script"
       /\ isInitialized => isInitialized'
       /\ \A s \in Slots, t \in Slots :
            (s # t /\ calls'[s] # calls[s]) => calls'[t] = calls[t]
       /\ \A s \in Slots :
            (calls[s].phase \in InitPhases /\ calls'[s].phase \notin InitPhases) =>
                \/ /\ calls[s].phase = "auth2init"
                   /\ calls'[s].failure = "none"
                   /\ "init" \in Range(calls'[s].steps)
                   /\ isInitialized'
                \/ /\ calls'[s].failure = "script"
                   /\ calls[s].phase = "script"
                   /\ calls'[s].phase = "settled"
                \/ /\ calls'[s].failure = "auth2init"
                   /\ calls[s].phase = "auth2init"
                   /\ calls'[s].phase = "settled"
                \/ /\ calls'[s].failure = "auth2load"
                   /\ calls[s].phase = "auth2load"
                   /\ calls'[s].phase = "stuck"
       /\ SomeInitSucceeded(calls) => isInitialized
       /\ SomeInitSucceeded(calls') => isInitialized']_vars

\* C15 witness: two initializeGoogleAPI calls were both started before either
\* completed (neither returned at once, neither was entered after a failure),
\* each appended its own script element, one was rejected and the other
\* resolved, and the flag is true.
C15_Witness ==
    /\ calls["app1"].op = "initializeGoogleAPI"
    /\ calls["app2"].op = "initializeGoogleAPI"
    /\ ~calls["app1"].skipped /\ ~calls["app2"].skipped
    /\ ~calls["app1"].afterFailure /\ ~calls["app2"].afterFailure
    /\ calls["app1"].status = "resolved"
    /\ calls["app2"].status = "rejected"
    /\ scriptCount = 2
    /\ isInitialized

\* The provider call of a signed-in submit is in flight.
SubmitInFlight ==
    calls["cur"].handler = "submit" /\ calls["cur"].status = "pending"

\* The dialog is closed in this step while the provider call of a submit is
\* in flight, by something other than the provider's answer to that call.
ClosedInFlight ==
    /\ SubmitInFlight /\ open /\ ~open'
    /\ calls'["cur"].response = calls["cur"].response
    /\ calls'["cur"].failure = calls["cur"].failure

\* The provider call of a submit settles in this step, the dialog having been
\* closed while it was in flight.
SettlesClosed ==
    SubmitInFlight /\ ~open /\ calls'["cur"].status # "pending"

\* C16: closing the dialog while the createEvent / updateEvent of a
\* submit is in flight cancels nothing, and the result that arrives after the
\* close invokes no onEventCreated / onEventUpdated and changes nothing the
\* parent sees.
C16_LateResultDiscarded ==
    [][/\ ClosedInFlight => (calls' = calls /\ requests' = requests)
       /\ SettlesClosed => (emitted' = emitted /\ open' = open)]_vars

====
